---- MODULE Spec2Model ----
(***************************************************************************)
(* Model of step_fun.py: chat_with_stepfun_ai drives a browser through a   *)
(* fixed sequence of page operations, then wait_for_ai_response polls the  *)
(* response region until two consecutive readings agree or the tick budget *)
(* is spent.                                                               *)
(*                                                                         *)
(* Texts are sequences of one-character strings.  str.strip() and the      *)
(* substring test `in` are modelled by what they compute on such           *)
(* sequences.  The three marker strings of the program are modelled by     *)
(* one-character markers over a small alphabet.                            *)
(***************************************************************************)
EXTENDS Integers, Sequences, FiniteSets

\* ---------------------------------------------------------------- bounds
MaxLen == 2          \* longest text read from the response region
MaxButtons == 3      \* most <button> elements on the page
MaxInputs == 2       \* most input-capable elements on the page
MaxTicks == 5        \* iterations of the polling loop; the program's
                     \* range(1800), scaled down

\* ------------------------------------------------------------- constants

WebSearchMarker == <<"W">>    \* "联网"
VideoMarker == <<"V">>        \* "视频创作"
ThinkingMarker == <<"M">>     \* "与 DeepSeek R1 生成"
TimeoutText == <<"T">>        \* "回复超时，未获取到完整回复"

\* Characters of the texts the response region can show.
Alphabet == {"a", " ", "M"}
Texts == UNION {[1..n -> Alphabet] : n \in 0..MaxLen}

\* What one read of the response region can produce: a text, None
\* (text_content() of a node without text), or an exception.
TextOf(t) == [tag |-> "text", text |-> t]
NoneValue == [tag |-> "none", text |-> <<>>]
ReadError == [tag |-> "error", text |-> <<>>]
Readings == {TextOf(t) : t \in Texts} \cup {NoneValue, ReadError}

\* Texts a <button> can carry.
ButtonTexts == {<<"W">>, <<"V">>, <<"W", "V">>, <<"c">>}
ButtonLists == UNION {[1..n -> ButtonTexts] : n \in 0..MaxButtons}

\* The query handed to chat_with_stepfun_ai.
Queries == {<<"q">>}

\* ------------------------------------------------------- pure functions
\* Python `sub in s` on strings.
Contains(sub, s) ==
    \E k \in 0..(Len(s) - Len(sub)) : SubSeq(s, k + 1, k + Len(sub)) = sub

IsSpace(c) == c = " "

\* Python str.strip(): drop leading and trailing whitespace.
Strip(s) ==
    LET keep == {k \in 1..Len(s) : ~IsSpace(s[k])}
    IN  IF keep = {} THEN <<>>
        ELSE LET lo == CHOOSE k \in keep : \A j \in keep : k <= j
                 hi == CHOOSE k \in keep : \A j \in keep : k >= j
             IN  SubSeq(s, lo, hi)

\* ----------------------------------------------------------------- state
VARIABLES
    pc,                  \* the statement chat_with_stepfun_ai is about to run
    playwright,          \* the async_playwright() context manager
    browser,             \* the browser launched at line 46
    input_text,          \* the argument of chat_with_stepfun_ai
    input_fields,        \* handles found by the input selector
    filled,              \* the handle that was filled, and the text put in it
    scans,               \* how many times the buttons were enumerated
    buttons,             \* text of every <button>, in document order
    web_search_index,
    stepfun_video_index,
    clicked,             \* indices of the buttons that were clicked
    i,                   \* ticks of the polling loop run so far
    prev_response,
    status,              \* how wait_for_ai_response returned
    result,              \* what wait_for_ai_response returned
    error,               \* the exception in flight or raised
    outcome,             \* how chat_with_stepfun_ai ended
    kind,                \* observer: what the last tick read: a text with
                         \* the marker ("skip"), another text, None, an error
    lastText,            \* observer: text of the last tick that was not skipped
    seen,                \* observer: some tick so far was not skipped
    repeats              \* observer: two ticks in a row, skipped ones aside,
                         \* read texts with equal trimmed values

vars == <<pc, playwright, browser, input_text, input_fields, filled, scans,
          buttons, web_search_index, stepfun_video_index, clicked, i,
          prev_response, status, result, error, outcome, kind, lastText, seen,
          repeats>>

browserVars == <<playwright, browser>>
pageVars == <<input_fields, filled, scans, buttons, web_search_index,
              stepfun_video_index, clicked>>
pollVars == <<i, prev_response, status, result>>
observerVars == <<kind, lastText, seen, repeats>>

NoError == "none"
NoInputError == "no_input_field"          \* "未找到输入框"
NoTargetError == "no_target_button"       \* "未找到目标按钮"
NoChatError == "no_chat_button"           \* "未找到聊天按钮"
NavigationError == "navigation"           \* page.goto / wait_for_load_state
UnexpectedError == "unexpected"           \* any other awaited call raising
ControlNotFound == {NoInputError, NoTargetError, NoChatError}

Init ==
    /\ pc = "start"
    /\ playwright = "off"
    /\ browser = "none"
    /\ input_text \in Queries
    /\ input_fields = <<>>
    /\ filled = [field |-> 0, text |-> <<>>]
    /\ scans = 0
    /\ buttons = <<>>
    /\ web_search_index = -1
    /\ stepfun_video_index = -1
    /\ clicked = {}
    /\ i = 0
    /\ prev_response = <<>>
    /\ status = "none"
    /\ result = <<>>
    /\ error = NoError
    /\ outcome = "running"
    /\ kind = "notick"
    /\ lastText = <<>>
    /\ seen = FALSE
    /\ repeats = FALSE

\* An exception raised inside the try block (lines 58-106): control goes to
\* the finally clause.
RaiseInTry(e) ==
    /\ pc' = "finally"
    /\ error' = e

\* An exception raised inside the `async with` but outside the try block
\* (lines 46-56): control leaves the `async with` directly.
RaiseOutsideTry(e) ==
    /\ pc' = "exit"
    /\ error' = e

\* ------------------------------------------------ chat_with_stepfun_ai
\* line 44: async with async_playwright() as p
Start ==
    /\ pc = "start"
    /\ playwright' = "running"
    /\ pc' = "launch"
    /\ UNCHANGED <<browser, input_text, pageVars, pollVars, error, outcome,
                   observerVars>>

\* line 46: browser = await p.chromium.launch(headless=True)
Launch ==
    /\ pc = "launch"
    /\ \E ok \in BOOLEAN :
         IF ok
         THEN /\ browser' = "open"
              /\ pc' = "new_context"
              /\ UNCHANGED error
         ELSE /\ RaiseOutsideTry(UnexpectedError)
              /\ UNCHANGED browser
    /\ UNCHANGED <<playwright, input_text, pageVars, pollVars, outcome,
                   observerVars>>

\* lines 49-53: context = await browser.new_context(...)
NewContext ==
    /\ pc = "new_context"
    /\ \E ok \in BOOLEAN :
         IF ok
         THEN /\ pc' = "new_page"
              /\ UNCHANGED error
         ELSE RaiseOutsideTry(UnexpectedError)
    /\ UNCHANGED <<browserVars, input_text, pageVars, pollVars, outcome,
                   observerVars>>

\* line 56: page = await context.new_page()
NewPage ==
    /\ pc = "new_page"
    /\ \E ok \in BOOLEAN :
         IF ok
         THEN /\ pc' = "goto"
              /\ UNCHANGED error
         ELSE RaiseOutsideTry(UnexpectedError)
    /\ UNCHANGED <<browserVars, input_text, pageVars, pollVars, outcome,
                   observerVars>>

\* lines 61-62: page.goto(...), page.wait_for_load_state("networkidle")
Goto ==
    /\ pc = "goto"
    /\ \E ok \in BOOLEAN :
         IF ok
         THEN /\ pc' = "mode"
              /\ UNCHANGED error
         ELSE RaiseInTry(NavigationError)
    /\ UNCHANGED <<browserVars, input_text, pageVars, pollVars, outcome,
                   observerVars>>

\* lines 65-68: click the mode button when the page has one
ModeButton ==
    /\ pc = "mode"
    /\ \E present \in BOOLEAN, ok \in BOOLEAN :
         IF present /\ ~ok
         THEN RaiseInTry(UnexpectedError)
         ELSE /\ pc' = "find_inputs"
              /\ UNCHANGED error
    /\ UNCHANGED <<browserVars, input_text, pageVars, pollVars, outcome,
                   observerVars>>

\* lines 71-75: input_fields = await page.query_selector_all(...)
FindInputs ==
    /\ pc = "find_inputs"
    /\ \E n \in 0..MaxInputs :
         /\ input_fields' = [k \in 1..n |-> k]
         /\ IF n = 0
            THEN RaiseInTry(NoInputError)
            ELSE /\ pc' = "fill"
                 /\ UNCHANGED error
    /\ UNCHANGED <<browserVars, input_text, filled, scans, buttons,
                   web_search_index, stepfun_video_index, clicked, pollVars,
                   outcome, observerVars>>

\* A slip in line 77: the last handle instead of the first.
InputFieldLast(fields) == fields[Len(fields)]

\* line 77: input_field = input_fields[0]
InputField(fields) == fields[1]

\* lines 77-78: await input_field.fill(input_text)
Fill ==
    /\ pc = "fill"
    /\ \E ok \in BOOLEAN :
         IF ok
         THEN /\ filled' = [field |-> InputField(input_fields),
                            text |-> input_text]
              /\ pc' = "enumerate"
              /\ UNCHANGED error
         ELSE /\ RaiseInTry(UnexpectedError)
              /\ UNCHANGED filled
    /\ UNCHANGED <<browserVars, input_text, input_fields, scans, buttons,
                   web_search_index, stepfun_video_index, clicked, pollVars,
                   outcome, observerVars>>

\* lines 86-91: the loop over enumerate(buttons), from index k on.
\* Indices are Python's: button k is bs[k + 1].
RECURSIVE ScanFrom(_, _, _, _)
ScanFrom(bs, k, ws, sv) ==
    IF k >= Len(bs) THEN <<ws, sv>>
    ELSE IF Contains(WebSearchMarker, bs[k + 1]) THEN ScanFrom(bs, k + 1, k, sv)
    ELSE IF Contains(VideoMarker, bs[k + 1]) THEN ScanFrom(bs, k + 1, ws, k)
    ELSE ScanFrom(bs, k + 1, ws, sv)

\* A slip in lines 83-84: the indices start at 0 instead of -1.
ScanButtonsFromZero(bs) == ScanFrom(bs, 0, 0, 0)

\* lines 83-91
ScanButtons(bs) == ScanFrom(bs, 0, -1, -1)

\* lines 82-91: buttons = await page.query_selector_all("button"), then the
\* loop reading each button's text
Enumerate ==
    /\ pc = "enumerate"
    /\ \E bs \in ButtonLists, ok \in BOOLEAN :
         IF ok
         THEN /\ buttons' = bs
              /\ scans' = scans + 1
              /\ web_search_index' = ScanButtons(bs)[1]
              /\ stepfun_video_index' = ScanButtons(bs)[2]
              /\ pc' = "select"
              /\ UNCHANGED error
         ELSE /\ RaiseInTry(UnexpectedError)
              /\ UNCHANGED <<buttons, scans, web_search_index,
                             stepfun_video_index>>
    /\ UNCHANGED <<browserVars, input_text, input_fields, filled, clicked,
                   pollVars, outcome, observerVars>>

\* A slip in line 97: the slice starts at web_search_index itself.
MiddleButtonsFromLeft(bs, ws, sv) ==
    LET hi == IF sv < Len(bs) THEN sv ELSE Len(bs)
    IN  IF hi <= ws THEN <<>> ELSE [k \in 1..(hi - ws) |-> ws + k - 1]

\* line 97: buttons[web_search_index+1:stepfun_video_index], as the Python
\* indices of the buttons in the slice (both indices are >= 0 here)
MiddleButtons(bs, ws, sv) ==
    LET lo == ws + 1
        hi == IF sv < Len(bs) THEN sv ELSE Len(bs)
    IN  IF hi <= lo THEN <<>> ELSE [k \in 1..(hi - lo) |-> lo + k - 1]

\* line 101: middle_button = middle_buttons[0]
MiddleButton(middle) == middle[1]

\* lines 93-103: check the two indices, pick the button, click it
SelectSubmit ==
    /\ pc = "select"
    /\ IF web_search_index = -1 \/ stepfun_video_index = -1
       THEN /\ RaiseInTry(NoTargetError)
            /\ UNCHANGED clicked
       ELSE LET middle == MiddleButtons(buttons, web_search_index,
                                        stepfun_video_index)
            IN  IF middle = <<>>
                THEN /\ RaiseInTry(NoChatError)
                     /\ UNCHANGED clicked
                ELSE \E ok \in BOOLEAN :
                       IF ok
                       THEN /\ clicked' = {MiddleButton(middle)}
                            /\ pc' = "poll"
                            /\ UNCHANGED error
                       ELSE /\ RaiseInTry(UnexpectedError)
                            /\ UNCHANGED clicked
    /\ UNCHANGED <<browserVars, input_text, input_fields, filled, scans,
                   buttons, web_search_index, stepfun_video_index, pollVars,
                   outcome, observerVars>>

\* ------------------------------------------------------ get_ai_response
\* lines 162-174: the text of the response region; "" when the node has no
\* text, and "" again when reading it raises
get_ai_response(reading) ==
    IF reading.tag = "error" THEN <<>>
    ELSE IF reading.tag = "none" \/ reading.text = <<>> THEN <<>>
    ELSE reading.text

\* ------------------------------------------------- wait_for_ai_response
\* A slip in line 132: the marker test never fires.
IsThinkingNever(response) == FALSE

\* line 132
IsThinking(response) == Contains(ThinkingMarker, response)

\* A slip in line 137: the two texts are compared without strip().
IsCompleteUntrimmed(prev, response) == Len(prev) > 0 /\ prev = response

\* line 137
IsComplete(prev, response) ==
    Len(Strip(prev)) > 0 /\ Strip(prev) = Strip(response)

\* Slips in line 149: the stored text whatever it is; the fallback always.
TimeoutResultStored(prev) == prev
TimeoutResultFallback(prev) == TimeoutText

\* line 149
TimeoutResult(prev) == IF prev # <<>> THEN prev ELSE TimeoutText

\* What the observer records of a tick that read `reading`: its kind, and
\* the text wait_for_ai_response was handed when it holds no marker.
Observe(reading) ==
    LET response == get_ai_response(reading)
    IN  /\ kind' = IF reading.tag = "text" /\ Contains(ThinkingMarker, response)
                   THEN "skip"
                   ELSE reading.tag
        /\ lastText' = IF Contains(ThinkingMarker, response) THEN lastText
                       ELSE response
        /\ seen' = (seen \/ ~Contains(ThinkingMarker, response))
        /\ repeats' = (\/ repeats
                       \/ /\ seen
                          /\ ~Contains(ThinkingMarker, response)
                          /\ Strip(lastText) = Strip(response))

\* A slip in line 124: one iteration too many.
BudgetLeftOneMore(n) == n < MaxTicks + 1

\* line 124: for i in range(...)
BudgetLeft(n) == n < MaxTicks

\* lines 124-146: one iteration of the loop
Tick ==
    /\ pc = "poll"
    /\ BudgetLeft(i)
    /\ \E waited \in BOOLEAN, reading \in Readings :
         IF ~waited
         THEN \* line 125 raises: outside the try of line 127
              /\ RaiseInTry(UnexpectedError)
              /\ UNCHANGED <<pollVars, observerVars>>
         ELSE LET response == get_ai_response(reading)
              IN  /\ Observe(reading)
                  /\ i' = i + 1
                  /\ IF IsThinking(response)
                     THEN UNCHANGED <<pc, error, prev_response, status, result>>
                     ELSE IF IsComplete(prev_response, response)
                     THEN /\ status' = "completed"
                          /\ result' = response
                          /\ pc' = "finally"
                          /\ UNCHANGED <<error, prev_response>>
                     ELSE /\ prev_response' = response
                          /\ UNCHANGED <<pc, error, status, result>>
    /\ UNCHANGED <<browserVars, input_text, pageVars, outcome>>

\* lines 148-149: the loop ran out
Timeout ==
    /\ pc = "poll"
    /\ ~BudgetLeft(i)
    /\ status' = "timeout"
    /\ result' = TimeoutResult(prev_response)
    /\ pc' = "finally"
    /\ UNCHANGED <<browserVars, input_text, pageVars, i, prev_response, error,
                   outcome, observerVars>>

\* lines 108-109: finally: await browser.close()
Finally ==
    /\ pc = "finally"
    /\ browser' = "closed"
    /\ pc' = "exit"
    /\ UNCHANGED <<playwright, input_text, pageVars, pollVars, error, outcome,
                   observerVars>>

\* line 44: leaving the `async with`, then returning or raising to the caller
Exit ==
    /\ pc = "exit"
    /\ playwright' = "stopped"
    /\ outcome' = IF error = NoError THEN "returned" ELSE "raised"
    /\ pc' = "done"
    /\ UNCHANGED <<browser, input_text, pageVars, pollVars, error,
                   observerVars>>

Next ==
    \/ Start
    \/ Launch
    \/ NewContext
    \/ NewPage
    \/ Goto
    \/ ModeButton
    \/ FindInputs
    \/ Fill
    \/ Enumerate
    \/ SelectSubmit
    \/ Tick
    \/ Timeout
    \/ Finally
    \/ Exit

Spec == Init /\ [][Next]_vars

\* The event loop keeps running the one coroutine until it returns.
FairSpec == Spec /\ WF_vars(Next)

\* ================================================================ claims
\* A step that is one iteration of the polling loop.
IsTick == pc = "poll" /\ i' = i + 1

\* The last tick read a text holding the in-progress marker.
SkippedTick == kind = "skip"

\* C1: when a tick that is not skipped reads a text whose trimmed value is
\* non-empty and equal to the trimmed text of the last tick before it that
\* was not skipped, the run completes at that tick and returns the text just
\* read; a run never completes at its first tick, nor with a text whose
\* trimmed value is empty.  (The text of a tick is what wait_for_ai_response
\* is handed by get_ai_response.)
C1_StableTextCompletes ==
    /\ [][(/\ IsTick
           /\ seen
           /\ ~SkippedTick'
           /\ Len(Strip(lastText)) > 0
           /\ Strip(lastText) = Strip(lastText'))
          => (/\ status' = "completed"
              /\ result' = lastText'
              /\ pc' # "poll")]_vars
    /\ [](status = "completed" => i >= 2 /\ Len(Strip(result)) > 0)

\* C1 witness: the fourth tick reads " a" after "a" and completes with " a".
C1_Witness ==
    /\ status = "completed"
    /\ i = 4
    /\ prev_response = <<"a">>
    /\ kind = "text"
    /\ lastText = <<" ", "a">>
    /\ result = <<" ", "a">>

\* C2: a tick whose text contains the in-progress marker leaves
\* prev_response as it was and does not end the run: the loop goes on to the
\* next tick.
C2_MarkerTickIsSkipped ==
    [][(IsTick /\ SkippedTick')
       => (/\ prev_response' = prev_response
           /\ pc' = "poll"
           /\ status' = "none"
           /\ result' = result)]_vars

\* C2 witness: a text with the marker was read while prev_response was "a".
C2_Witness ==
    /\ pc = "poll"
    /\ SkippedTick
    /\ prev_response = <<"a">>
    /\ status = "none"

C8_ReadErrorIsSkipped ==
    [][(IsTick /\ kind' = "error")
       => (prev_response' = prev_response /\ pc' = "poll")]_vars

\* C10: wait_for_ai_response never returns the empty string: a completed
\* run returns a text with a non-empty trimmed value, a timed-out run
\* returns a non-empty prev_response or the fallback text, and the fallback
\* text whenever prev_response is empty.
C10_ResultNeverEmpty ==
    status # "none"
    => (/\ result # <<>>
        /\ status = "completed" => Len(Strip(result)) > 0
        /\ status = "timeout"
           => (/\ result = TimeoutText \/ result = prev_response
               /\ prev_response = <<>> => result = TimeoutText))

\* C10 witness: every tick was skipped and the fallback text was returned.
C10_Witness ==
    /\ status = "timeout"
    /\ ~seen
    /\ SkippedTick
    /\ result = TimeoutText

\* C4 as stated: a run that acquired the browser never ends with it open.
C4_BrowserClosedAtExit ==
    pc = "done" => browser # "open"

\* Python indices of the buttons whose text contains `marker`.
Matching(marker, bs) == {k \in 0..(Len(bs) - 1) : Contains(marker, bs[k + 1])}

Last(S) == CHOOSE k \in S : \A j \in S : j <= k
First(S) == CHOOSE k \in S : \A j \in S : k <= j

\* The boundary indices: the last button matching each marker, -1 without one.
LeftIndex(bs) ==
    IF Matching(WebSearchMarker, bs) = {} THEN -1
    ELSE Last(Matching(WebSearchMarker, bs))
RightIndex(bs) ==
    IF Matching(VideoMarker, bs) = {} THEN -1
    ELSE Last(Matching(VideoMarker, bs))

\* Python indices of the buttons strictly between the two boundaries.
Between(bs) ==
    {k \in 0..(Len(bs) - 1) : LeftIndex(bs) < k /\ k < RightIndex(bs)}

\* The buttons were enumerated and the submit control was looked for.
Selected == scans > 0 /\ pc # "select"

\* C5: when no enumerated button matches the left-boundary marker, or none
\* matches the right-boundary marker, the run fails with the
\* target-button-not-found error, no button is clicked, no polling tick runs,
\* the buttons are enumerated once only, and the error reaches the caller.
C5_MissingBoundaryFails ==
    (/\ scans > 0
     /\ \/ Matching(WebSearchMarker, buttons) = {}
        \/ Matching(VideoMarker, buttons) = {})
    => (/\ scans = 1
        /\ clicked = {}
        /\ i = 0
        /\ pc \in {"select", "finally", "exit", "done"}
        /\ pc # "select" => error = NoTargetError
        /\ pc = "done" => outcome = "raised")

\* C5 witness: three buttons, none matching the right-boundary marker, and
\* the run ended with the error raised.
C5_Witness ==
    /\ pc = "done"
    /\ Len(buttons) = 3
    /\ Matching(WebSearchMarker, buttons) # {}
    /\ Matching(VideoMarker, buttons) = {}
    /\ error = NoTargetError
    /\ outcome = "raised"

C7_InputFieldSelection ==
    /\ [][(pc = "find_inputs" /\ pc' # "find_inputs" /\ input_fields' = <<>>)
          => (pc' = "finally" /\ error' = NoInputError)]_vars
    /\ [](error = NoInputError
          => (/\ input_fields = <<>>
              /\ filled.field = 0
              /\ scans = 0
              /\ clicked = {}
              /\ i = 0))
    /\ [](pc \in {"enumerate", "select", "poll"} \/ clicked # {}
          => (/\ input_fields # <<>>
              /\ filled = [field |-> 1, text |-> input_text]))

\* C7 witness: two input-capable elements, the first one filled, the submit
\* control clicked.
C7_Witness ==
    /\ Len(input_fields) = 2
    /\ filled.field = 1
    /\ filled.text = input_text
    /\ clicked # {}

\* C9: every run ends: it reaches its terminal state, by completion, by
\* poll timeout or by a failure; the polling loop runs no more ticks than
\* its budget; and polling starts only after the submit control was clicked.
C9_RunTerminates ==
    /\ <>(pc = "done")
    /\ [](i <= MaxTicks)
    /\ [](pc = "poll" \/ i > 0 => clicked # {})
    /\ [](pc = "done"
          => (/\ outcome \in {"returned", "raised"}
              /\ outcome = "returned" <=> status \in {"completed", "timeout"}
              /\ outcome = "raised" <=> error # NoError))

\* C9 witness: a run that used its whole budget and ended by timeout.
C9_Witness ==
    /\ pc = "done"
    /\ status = "timeout"
    /\ outcome = "returned"
    /\ i = MaxTicks

====
